---- MODULE Spec2Model ----
(***************************************************************************)
(* hotmic: an in-process metrics aggregation engine.                       *)
(*                                                                         *)
(* Producers push samples through Sinks, which batch them and deliver the  *)
(* batches on a bounded data channel.  One Receiver polls the data and the *)
(* control channel, applies every sample to the counter, gauge and         *)
(* histogram views, recycles the batch through the buffer pool and serves  *)
(* snapshot requests.                                                      *)
(*                                                                         *)
(* Receiver and Snapshot are translated from src/src/receiver.rs and       *)
(* src/src/data/mod.rs.  The Counter, Gauge, Histogram, Sink, Controller   *)
(* and channel modules are not part of the available sources; they are     *)
(* modelled from the written specification (sections 3, 4.1-4.3, 4.5-4.9). *)
(***************************************************************************)
EXTENDS Integers, Sequences, FiniteSets, Bags, TLC

(***************************************************************************)
(* Bounds of the model.                                                    *)
(***************************************************************************)
Capacity   == 1      \* conf.capacity: bound of the three channels
BatchSize  == 2      \* conf.batch_size
MaxSend    == 5      \* samples submitted over all sinks
MaxControl == 1      \* control requests submitted over all handles
MaxDirect  == 1      \* direct add_facet / remove_facet calls on the receiver
MaxTicks   == 2      \* clock advances
MaxFacetCalls == 3   \* direct add_facet / remove_facet calls in SpecFacets

(***************************************************************************)
(* Program constants (milliseconds).                                       *)
(***************************************************************************)
UPKEEP_MS      == 250       \* Duration::from_millis(250)
WINDOW_MS      == 10000     \* Duration::from_secs(10)
GRANULARITY_MS == 1000      \* Duration::from_secs(1)

\* Option<T>: None is the empty tuple, Some(x) the tuple of x.
None    == << >>
Some(x) == << x >>
Unwrap(o) == o[1]

Sinks   == {1, 2}
Keys    == {"a", "b"}
Callers == {1}

(***************************************************************************)
(* data::Facet and data::Sample.  A sample is a record with the fields of  *)
(* the three variants: Timing(key, start, end, count), Count(key, delta),  *)
(* Value(key, value); the fields a variant does not have are 0.            *)
(***************************************************************************)
Facet(kind, key) == [kind |-> kind, key |-> key]

FacetKinds == {"Count", "Gauge", "TimingPercentile", "ValuePercentile"}

Sample(kind, key, start, end, n) ==
    [kind |-> kind, key |-> key, start |-> start, end |-> end, n |-> n]

Timing(key, start, end, count) == Sample("Timing", key, start, end, count)
Count(key, delta)              == Sample("Count", key, 0, 0, delta)
Value(key, value)              == Sample("Value", key, 0, 0, value)

(***************************************************************************)
(* data::Percentile(label, q).  q is kept in tenths of a percent so that   *)
(* 99.9 is the integer 999.                                                *)
(***************************************************************************)
Percentile(label, q) == [label |-> label, q |-> q]

default_percentiles ==
    << Percentile("min", 0), Percentile("p50", 500), Percentile("p90", 900),
       Percentile("p99", 990), Percentile("p999", 999), Percentile("max", 1000) >>

(***************************************************************************)
(* Counter view: key -> signed running total.  A key in the domain is      *)
(* registered.                                                             *)
(***************************************************************************)
EmptyMap == [k \in {} |-> 0]

Counter_new == EmptyMap

Counter_register(c, key) == IF key \in DOMAIN c THEN c ELSE (key :> 0) @@ c

Counter_deregister(c, key) == [k \in DOMAIN c \ {key} |-> c[k]]

\* Variant of the counter update that takes a Value sample for a delta.
Counter_update_counts_values(c, sample) ==
    IF sample.key \notin DOMAIN c THEN c
    ELSE CASE sample.kind = "Timing" -> [c EXCEPT ![sample.key] = @ + 1]
           [] sample.kind = "Count"  -> [c EXCEPT ![sample.key] = @ + sample.n]
           [] OTHER                  -> [c EXCEPT ![sample.key] = @ + sample.n]

Counter_update(c, sample) ==
    IF sample.key \notin DOMAIN c THEN c
    ELSE CASE sample.kind = "Timing" -> [c EXCEPT ![sample.key] = @ + 1]
           [] sample.kind = "Count"  -> [c EXCEPT ![sample.key] = @ + sample.n]
           [] OTHER                  -> c

Counter_value(c, key) == IF key \in DOMAIN c THEN c[key] ELSE 0

(***************************************************************************)
(* Gauge view: key -> last written unsigned value.                         *)
(***************************************************************************)
Gauge_new == EmptyMap

Gauge_register(g, key) == IF key \in DOMAIN g THEN g ELSE (key :> 0) @@ g

Gauge_deregister(g, key) == [k \in DOMAIN g \ {key} |-> g[k]]

Gauge_update(g, sample) ==
    IF sample.kind = "Value" /\ sample.key \in DOMAIN g
    THEN [g EXCEPT ![sample.key] = sample.n]
    ELSE g

Gauge_value(g, key) == IF key \in DOMAIN g THEN g[key] ELSE 0

(***************************************************************************)
(* Windowed histogram view: key -> ring of NumBuckets sub-histograms (bags *)
(* of recorded values) with the head index and the last rotation instant.  *)
(***************************************************************************)
NumBuckets == WINDOW_MS \div GRANULARITY_MS

Window_new(at) ==
    [buckets |-> [i \in 1..NumBuckets |-> EmptyBag], index |-> 1, t_last |-> at]

Window_record(w, v) ==
    [w EXCEPT !.buckets[w.index] = @ (+) SetToBag({v})]

\* Variant of the rotation that advances the head without clearing the slot it reaches.
Window_roll_keeps_slot(w) ==
    LET next == (w.index % NumBuckets) + 1
    IN  [buckets |-> w.buckets,
         index   |-> next,
         t_last  |-> w.t_last + GRANULARITY_MS]

\* Advance the head by one slot and clear it; t_last += I.
Window_roll(w) ==
    LET next == (w.index % NumBuckets) + 1
    IN  [buckets |-> [w.buckets EXCEPT ![next] = EmptyBag],
         index   |-> next,
         t_last  |-> w.t_last + GRANULARITY_MS]

RECURSIVE Window_upkeep(_, _)
Window_upkeep(w, at) ==
    IF at - w.t_last >= GRANULARITY_MS THEN Window_upkeep(Window_roll(w), at) ELSE w

RECURSIVE MergeBuckets(_, _)
MergeBuckets(buckets, i) ==
    IF i = 0 THEN EmptyBag ELSE buckets[i] (+) MergeBuckets(buckets, i - 1)

Window_merged(w) == MergeBuckets(w.buckets, NumBuckets)

Histogram_new == EmptyMap

Histogram_register(h, key, at) ==
    IF key \in DOMAIN h THEN h ELSE (key :> Window_new(at)) @@ h

Histogram_deregister(h, key) == [k \in DOMAIN h \ {key} |-> h[k]]

\* (end - start), saturating at 0 from below.
TimingDelta(sample) == IF sample.end >= sample.start THEN sample.end - sample.start ELSE 0

Histogram_update(h, sample) ==
    IF sample.key \notin DOMAIN h THEN h
    ELSE CASE sample.kind = "Timing" ->
                [h EXCEPT ![sample.key] = Window_record(@, TimingDelta(sample))]
           [] sample.kind = "Value" ->
                [h EXCEPT ![sample.key] = Window_record(@, sample.n)]
           [] OTHER -> h

Histogram_upkeep(h, at) == [k \in DOMAIN h |-> Window_upkeep(h[k], at)]

Histogram_snapshot(h, key) == IF key \in DOMAIN h THEN Some(Window_merged(h[key])) ELSE None

(***************************************************************************)
(* HdrHistogram::value_at_percentile on a bag of values: the smallest      *)
(* recorded value whose cumulative count reaches the requested share of    *)
(* the total count (at least one sample); 0 for an empty histogram.        *)
(***************************************************************************)
CumulativeCount(hs, v) ==
    LET below == {x \in BagToSet(hs) : x <= v}
        RECURSIVE Sum(_)
        Sum(S) == IF S = {} THEN 0
                  ELSE LET x == CHOOSE y \in S : TRUE IN CopiesIn(x, hs) + Sum(S \ {x})
    IN  Sum(below)

value_at_percentile(hs, q) ==
    LET total  == BagCardinality(hs)
        wanted == (2 * q * total + 1000) \div 2000
        target == IF wanted < 1 THEN 1 ELSE wanted
        reach  == {v \in BagToSet(hs) : CumulativeCount(hs, v) >= target}
    IN  IF total = 0 THEN 0
        ELSE CHOOSE v \in reach : \A u \in reach : v <= u

(***************************************************************************)
(* data::Snapshot: two flat maps keyed by synthesised labels.              *)
(***************************************************************************)
Display(key) == key

Snapshot_new == [signed_data |-> EmptyMap, unsigned_data |-> EmptyMap]

\* Variant of the map insertion that keeps the value already stored under the label.
Insert_keeps_existing(map, fkey, value) == map @@ (fkey :> value)

Insert(map, fkey, value) == (fkey :> value) @@ map

set_count(snapshot, key, value) ==
    LET fkey == Display(key) \o "_count"
    IN  [snapshot EXCEPT !.signed_data = Insert(@, fkey, value)]

set_value(snapshot, key, value) ==
    LET fkey == Display(key) \o "_value"
    IN  [snapshot EXCEPT !.unsigned_data = Insert(@, fkey, value)]

\* Variant of set_timing_percentiles that composes the label of the value percentiles.
RECURSIVE set_timing_percentiles_value_label(_, _, _, _)
set_timing_percentiles_value_label(snapshot, key, h, percentiles) ==
    IF percentiles = << >> THEN snapshot
    ELSE LET percentile == Head(percentiles)
             fkey  == (Display(key) \o "_value_") \o percentile.label
             value == value_at_percentile(h, percentile.q)
         IN  set_timing_percentiles_value_label(
                 [snapshot EXCEPT !.unsigned_data = Insert(@, fkey, value)],
                 key, h, Tail(percentiles))

RECURSIVE set_timing_percentiles(_, _, _, _)
set_timing_percentiles(snapshot, key, h, percentiles) ==
    IF percentiles = << >> THEN snapshot
    ELSE LET percentile == Head(percentiles)
             fkey  == (Display(key) \o "_ns_") \o percentile.label
             value == value_at_percentile(h, percentile.q)
         IN  set_timing_percentiles(
                 [snapshot EXCEPT !.unsigned_data = Insert(@, fkey, value)],
                 key, h, Tail(percentiles))

RECURSIVE set_value_percentiles(_, _, _, _)
set_value_percentiles(snapshot, key, h, percentiles) ==
    IF percentiles = << >> THEN snapshot
    ELSE LET percentile == Head(percentiles)
             fkey  == (Display(key) \o "_value_") \o percentile.label
             value == value_at_percentile(h, percentile.q)
         IN  set_value_percentiles(
                 [snapshot EXCEPT !.unsigned_data = Insert(@, fkey, value)],
                 key, h, Tail(percentiles))

\* Option<&i64> / Option<&u64>: None when the label is not stored.
count(snapshot, key) ==
    LET fkey == Display(key) \o "_count"
    IN  IF fkey \in DOMAIN snapshot.signed_data THEN Some(snapshot.signed_data[fkey]) ELSE None

value(snapshot, key) ==
    LET fkey == Display(key) \o "_value"
    IN  IF fkey \in DOMAIN snapshot.unsigned_data THEN Some(snapshot.unsigned_data[fkey]) ELSE None

timing_percentile(snapshot, key, percentile) ==
    LET fkey == (Display(key) \o "_ns_") \o percentile.label
    IN  IF fkey \in DOMAIN snapshot.unsigned_data THEN Some(snapshot.unsigned_data[fkey]) ELSE None

value_percentile(snapshot, key, percentile) ==
    LET fkey == (Display(key) \o "_value_") \o percentile.label
    IN  IF fkey \in DOMAIN snapshot.unsigned_data THEN Some(snapshot.unsigned_data[fkey]) ELSE None

(***************************************************************************)
(* The view state of the receiver as one value, so that add_facet,         *)
(* remove_facet, the sample loop and the snapshot construction of          *)
(* Receiver are functions of it.  The field applied is the log of the      *)
(* samples the sample loop has gone through, in the order it did.          *)
(***************************************************************************)
ViewState(f, c, g, h) ==
    [facets |-> f, counter |-> c, gauge |-> g, histogram |-> h, applied |-> << >>]

\* Variant of add_facet that stores a fresh entry for the key instead of registering it.
add_facet_fresh_entry(st, facet, at) ==
    LET t == facet.key
        registered ==
            CASE facet.kind = "Count" ->
                   [st EXCEPT !.counter = (t :> 0) @@ @]
              [] facet.kind = "Gauge" ->
                   [st EXCEPT !.gauge = (t :> 0) @@ @]
              [] facet.kind = "TimingPercentile" ->
                   [st EXCEPT !.histogram = (t :> Window_new(at)) @@ @]
              [] facet.kind = "ValuePercentile" ->
                   [st EXCEPT !.histogram = (t :> Window_new(at)) @@ @]
    IN  [registered EXCEPT !.facets = @ \cup {facet}]

\* Receiver::add_facet; `at` is the instant a new histogram window starts.
add_facet(st, facet, at) ==
    LET t == facet.key
        registered ==
            CASE facet.kind = "Count" ->
                   [st EXCEPT !.counter = Counter_register(@, t)]
              [] facet.kind = "Gauge" ->
                   [st EXCEPT !.gauge = Gauge_register(@, t)]
              [] facet.kind = "TimingPercentile" ->
                   [st EXCEPT !.histogram = Histogram_register(@, t, at)]
              [] facet.kind = "ValuePercentile" ->
                   [st EXCEPT !.histogram = Histogram_register(@, t, at)]
    IN  [registered EXCEPT !.facets = @ \cup {facet}]

\* Variant of remove_facet that leaves out self.facets.remove(&facet).
remove_facet_keeps_facet(st, facet) ==
    LET t == facet.key
    IN  CASE facet.kind = "Count" ->
               [st EXCEPT !.counter = Counter_deregister(@, t)]
          [] facet.kind = "Gauge" ->
               [st EXCEPT !.gauge = Gauge_deregister(@, t)]
          [] facet.kind = "TimingPercentile" ->
               [st EXCEPT !.histogram = Histogram_deregister(@, t)]
          [] facet.kind = "ValuePercentile" ->
               [st EXCEPT !.histogram = Histogram_deregister(@, t)]

\* Receiver::remove_facet
remove_facet(st, facet) ==
    LET t == facet.key
        deregistered ==
            CASE facet.kind = "Count" ->
                   [st EXCEPT !.counter = Counter_deregister(@, t)]
              [] facet.kind = "Gauge" ->
                   [st EXCEPT !.gauge = Gauge_deregister(@, t)]
              [] facet.kind = "TimingPercentile" ->
                   [st EXCEPT !.histogram = Histogram_deregister(@, t)]
              [] facet.kind = "ValuePercentile" ->
                   [st EXCEPT !.histogram = Histogram_deregister(@, t)]
    IN  [deregistered EXCEPT !.facets = @ \ {facet}]

\* Variant of the sample loop that leaves out self.counter.update(result).
RECURSIVE apply_results_no_counter(_, _)
apply_results_no_counter(st, results) ==
    IF results = << >> THEN st
    ELSE LET result == Head(results)
             updated == [st EXCEPT !.gauge     = Gauge_update(@, result),
                                   !.histogram = Histogram_update(@, result),
                                   !.applied   = Append(@, result)]
         IN  apply_results_no_counter(updated, Tail(results))

\* Variant of the sample loop that stops one sample short of the end of the batch.
RECURSIVE apply_results_short(_, _)
apply_results_short(st, results) ==
    IF Len(results) <= 1 THEN st
    ELSE LET result == Head(results)
             updated == [st EXCEPT !.counter   = Counter_update(@, result),
                                   !.gauge     = Gauge_update(@, result),
                                   !.histogram = Histogram_update(@, result),
                                   !.applied   = Append(@, result)]
         IN  apply_results_short(updated, Tail(results))

\* Variant of the sample loop that walks the batch from its last sample to its first.
RECURSIVE apply_results_reversed(_, _)
apply_results_reversed(st, results) ==
    IF results = << >> THEN st
    ELSE LET result == results[Len(results)]
             updated == [st EXCEPT !.counter   = Counter_update(@, result),
                                   !.gauge     = Gauge_update(@, result),
                                   !.histogram = Histogram_update(@, result),
                                   !.applied   = Append(@, result)]
         IN  apply_results_reversed(updated, SubSeq(results, 1, Len(results) - 1))

\* Receiver::turn, DATA: every sample of the batch, in order, to the three views.
RECURSIVE apply_results(_, _)
apply_results(st, results) ==
    IF results = << >> THEN st
    ELSE LET result == Head(results)
             updated == [st EXCEPT !.counter   = Counter_update(@, result),
                                   !.gauge     = Gauge_update(@, result),
                                   !.histogram = Histogram_update(@, result),
                                   !.applied   = Append(@, result)]
         IN  apply_results(updated, Tail(results))

\* Variant of the snapshot construction whose Gauge arm reads self.counter.
snapshot_facet_gauge_from_counter(snapshot, st, facet) ==
    LET key == facet.key
    IN  CASE facet.kind = "Count" ->
               set_count(snapshot, key, Counter_value(st.counter, key))
          [] facet.kind = "Gauge" ->
               set_value(snapshot, key, Counter_value(st.counter, key))
          [] facet.kind = "TimingPercentile" ->
               LET hs == Histogram_snapshot(st.histogram, key)
               IN  IF hs = None THEN snapshot
                   ELSE set_timing_percentiles(snapshot, key, Unwrap(hs), default_percentiles)
          [] facet.kind = "ValuePercentile" ->
               LET hs == Histogram_snapshot(st.histogram, key)
               IN  IF hs = None THEN snapshot
                   ELSE set_value_percentiles(snapshot, key, Unwrap(hs), default_percentiles)

\* Variant of the snapshot construction that leaves out a count or a gauge value of 0.
snapshot_facet_skips_zero(snapshot, st, facet) ==
    LET key == facet.key
    IN  CASE facet.kind = "Count" ->
               IF Counter_value(st.counter, key) = 0 THEN snapshot
               ELSE set_count(snapshot, key, Counter_value(st.counter, key))
          [] facet.kind = "Gauge" ->
               IF Gauge_value(st.gauge, key) = 0 THEN snapshot
               ELSE set_value(snapshot, key, Gauge_value(st.gauge, key))
          [] facet.kind = "TimingPercentile" ->
               LET hs == Histogram_snapshot(st.histogram, key)
               IN  IF hs = None THEN snapshot
                   ELSE set_timing_percentiles(snapshot, key, Unwrap(hs), default_percentiles)
          [] facet.kind = "ValuePercentile" ->
               LET hs == Histogram_snapshot(st.histogram, key)
               IN  IF hs = None THEN snapshot
                   ELSE set_value_percentiles(snapshot, key, Unwrap(hs), default_percentiles)

\* Variant of the snapshot construction whose Count arm also stores a gauge value.
snapshot_facet_count_sets_value(snapshot, st, facet) ==
    LET key == facet.key
    IN  CASE facet.kind = "Count" ->
               set_value(set_count(snapshot, key, Counter_value(st.counter, key)),
                         key, Gauge_value(st.gauge, key))
          [] facet.kind = "Gauge" ->
               set_value(snapshot, key, Gauge_value(st.gauge, key))
          [] facet.kind = "TimingPercentile" ->
               LET hs == Histogram_snapshot(st.histogram, key)
               IN  IF hs = None THEN snapshot
                   ELSE set_timing_percentiles(snapshot, key, Unwrap(hs), default_percentiles)
          [] facet.kind = "ValuePercentile" ->
               LET hs == Histogram_snapshot(st.histogram, key)
               IN  IF hs = None THEN snapshot
                   ELSE set_value_percentiles(snapshot, key, Unwrap(hs), default_percentiles)

\* Receiver::turn, ControlMessage::Snapshot: one slot per facet of the set.
snapshot_facet(snapshot, st, facet) ==
    LET key == facet.key
    IN  CASE facet.kind = "Count" ->
               set_count(snapshot, key, Counter_value(st.counter, key))
          [] facet.kind = "Gauge" ->
               set_value(snapshot, key, Gauge_value(st.gauge, key))
          [] facet.kind = "TimingPercentile" ->
               LET hs == Histogram_snapshot(st.histogram, key)
               IN  IF hs = None THEN snapshot
                   ELSE set_timing_percentiles(snapshot, key, Unwrap(hs), default_percentiles)
          [] facet.kind = "ValuePercentile" ->
               LET hs == Histogram_snapshot(st.histogram, key)
               IN  IF hs = None THEN snapshot
                   ELSE set_value_percentiles(snapshot, key, Unwrap(hs), default_percentiles)

RECURSIVE snapshot_facets(_, _, _)
snapshot_facets(snapshot, st, todo) ==
    IF todo = {} THEN snapshot
    ELSE LET facet == CHOOSE f \in todo : TRUE
         IN  snapshot_facets(snapshot_facet(snapshot, st, facet), st, todo \ {facet})

build_snapshot(st) == snapshot_facets(Snapshot_new, st, st.facets)

(***************************************************************************)
(* State.                                                                  *)
(***************************************************************************)
VARIABLES
    facets, counter, gauge, histogram, last_upkeep,  \* Receiver fields
    buffer_pool, data_chan, control_chan,            \* the three channels
    sink_buffer,                                     \* Sink: held-out batch
    rpc, events, results,                            \* position of the receiver
    replies,                                         \* get_snapshot callers
    now, ticks, next_id,                             \* clock, allocations
    sent, applied,                                   \* history: samples
    count_stable, gauge_stable, expect, last_op,     \* history: facets
    n_control, n_direct

views   == <<facets, counter, gauge, histogram>>
chans   == <<buffer_pool, data_chan, control_chan>>
rstate  == <<rpc, events, results>>
clock   == <<now, ticks>>
history == <<sent, applied, count_stable, gauge_stable, expect, last_op>>
budget  == <<n_control, n_direct>>

vars == <<views, last_upkeep, chans, sink_buffer, rstate, replies, clock, next_id,
          history, budget>>

DATA    == "DATA"       \* Token(5)
CONTROL == "CONTROL"    \* Token(15)

\* A batch buffer: an identity, the sink that filled it, the samples.
Batch(id, src, data) == [id |-> id, src |-> src, data |-> data]

NoFacet == Facet("None", "")

AddFacetMsg(facet, from)    == [kind |-> "AddFacet", facet |-> facet, tx |-> 0, from |-> from]
RemoveFacetMsg(facet, from) == [kind |-> "RemoveFacet", facet |-> facet, tx |-> 0, from |-> from]
SnapshotMsg(tx)             == [kind |-> "Snapshot", facet |-> NoFacet, tx |-> tx, from |-> 0]

TickSteps == {UPKEEP_MS, GRANULARITY_MS, WINDOW_MS}

CurrentViews == ViewState(facets, counter, gauge, histogram)

\* The last add_facet / remove_facet the receiver executed: the facet set before it
\* (before the add_facet it undoes, for a remove_facet that follows the add_facet of
\* the same facet), whether it follows an add_facet of the same facet, its rank and
\* the number of samples applied before it.
NoOp == [op |-> "none", facet |-> NoFacet, prior |-> {}, follows |-> FALSE, seq |-> 0,
         seen |-> 0]

\* A caller of get_snapshot: its state, the snapshot it received, and what the
\* receiver had done when it served it (samples applied, batches still queued,
\* rank of the last facet operation).
Idle == [state |-> "idle", snapshot |-> None, seen |-> 0, queued |-> 0, op_seq |-> 0]

(***************************************************************************)
(* Receiver::from_config                                                   *)
(***************************************************************************)
Init ==
    /\ facets = {}
    /\ counter = Counter_new
    /\ gauge = Gauge_new
    /\ histogram = Histogram_new
    /\ last_upkeep = 0
    /\ buffer_pool = [i \in 1..Capacity |-> Batch(i, 0, << >>)]
    /\ data_chan = << >>
    /\ control_chan = << >>
    /\ sink_buffer = [s \in Sinks |-> None]
    /\ rpc = "poll"
    /\ events = {}
    /\ results = None
    /\ replies = [c \in Callers |-> Idle]
    /\ now = 0
    /\ ticks = 0
    /\ next_id = Capacity + 1
    /\ sent = [s \in Sinks |-> << >>]
    /\ applied = << >>
    /\ count_stable = Keys
    /\ gauge_stable = Keys
    /\ expect = [k \in Keys |-> 0]
    /\ last_op = NoOp
    /\ n_control = 0
    /\ n_direct = 0

(***************************************************************************)
(* History bookkeeping shared by the actions.                              *)
(***************************************************************************)
TotalSent == LET RECURSIVE Sum(_)
                 Sum(S) == IF S = {} THEN 0
                           ELSE LET x == CHOOSE y \in S : TRUE IN Len(sent[x]) + Sum(S \ {x})
             IN  Sum(Sinks)

\* What one sample adds to the count of key k: a Count its delta, a Timing one event.
Contribution(sample, k) ==
    IF sample.key # k THEN 0
    ELSE CASE sample.kind = "Count"  -> sample.n
           [] sample.kind = "Timing" -> 1
           [] OTHER                  -> 0

RECURSIVE ExpectedCount(_, _)
ExpectedCount(samples, k) ==
    IF samples = << >> THEN 0
    ELSE Contribution(Head(samples), k) + ExpectedCount(Tail(samples), k)

OpAfterAdd(facet) ==
    [op |-> "add", facet |-> facet, prior |-> facets,
     follows |-> (last_op.op = "add" /\ last_op.facet = facet),
     seq |-> last_op.seq + 1, seen |-> Len(applied)]

OpAfterRemove(facet) ==
    LET undo == last_op.op = "add" /\ last_op.facet = facet
    IN  [op |-> "remove", facet |-> facet,
         prior |-> IF undo THEN last_op.prior ELSE facets,
         follows |-> undo,
         seq |-> last_op.seq + 1, seen |-> Len(applied)]

\* The effect of Receiver::add_facet on the receiver and on the history.
DoAddFacet(facet) ==
    LET st == add_facet(CurrentViews, facet, now)
    IN  /\ facets' = st.facets
        /\ counter' = st.counter
        /\ gauge' = st.gauge
        /\ histogram' = st.histogram
        /\ last_op' = OpAfterAdd(facet)
        /\ UNCHANGED <<count_stable, gauge_stable, expect>>

\* The effect of Receiver::remove_facet on the receiver and on the history.
DoRemoveFacet(facet) ==
    LET st == remove_facet(CurrentViews, facet)
    IN  /\ facets' = st.facets
        /\ counter' = st.counter
        /\ gauge' = st.gauge
        /\ histogram' = st.histogram
        /\ last_op' = OpAfterRemove(facet)
        /\ count_stable' = IF facet.kind = "Count" THEN count_stable \ {facet.key}
                           ELSE count_stable
        /\ gauge_stable' = IF facet.kind = "Gauge" THEN gauge_stable \ {facet.key}
                           ELSE gauge_stable
        /\ UNCHANGED expect

(***************************************************************************)
(* Sink::send: check out a batch when none is held (fresh allocation when  *)
(* the pool is empty), push the sample, deliver the batch on the data      *)
(* channel when it is full.  A full data channel blocks the delivery: the  *)
(* sink keeps the full batch until Sink_send_unblock.                      *)
(***************************************************************************)
SinkBlocked(s) ==
    sink_buffer[s] # None /\ Len(Unwrap(sink_buffer[s]).data) >= BatchSize

Sink_send(s, sample) ==
    /\ ~SinkBlocked(s)
    /\ LET held     == sink_buffer[s]
           checkout == held = None /\ buffer_pool # << >>
           allocate == held = None /\ buffer_pool = << >>
           buffer   == IF held # None THEN Unwrap(held)
                       ELSE IF checkout THEN Head(buffer_pool)
                       ELSE Batch(next_id, 0, << >>)
           filled   == [buffer EXCEPT !.data = Append(@, sample), !.src = s]
           deliver  == Len(filled.data) >= BatchSize /\ Len(data_chan) < Capacity
       IN  /\ buffer_pool' = IF checkout THEN Tail(buffer_pool) ELSE buffer_pool
           /\ next_id' = IF allocate THEN next_id + 1 ELSE next_id
           /\ data_chan' = IF deliver THEN Append(data_chan, filled) ELSE data_chan
           /\ sink_buffer' = [sink_buffer EXCEPT ![s] = IF deliver THEN None ELSE Some(filled)]
    /\ sent' = [sent EXCEPT ![s] = Append(@, sample)]
    /\ UNCHANGED <<views, last_upkeep, control_chan, rstate, replies, clock, applied,
                   count_stable, gauge_stable, expect, last_op, budget>>

Sink_send_unblock(s) ==
    /\ SinkBlocked(s)
    /\ Len(data_chan) < Capacity
    /\ data_chan' = Append(data_chan, Unwrap(sink_buffer[s]))
    /\ sink_buffer' = [sink_buffer EXCEPT ![s] = None]
    /\ UNCHANGED <<views, last_upkeep, buffer_pool, control_chan, rstate, replies, clock,
                   next_id, sent, applied, count_stable, gauge_stable, expect, last_op,
                   budget>>

(***************************************************************************)
(* Control requests: Sink::update_facet, Controller::add_facet,            *)
(* Controller::remove_facet, Controller::get_snapshot.  The control        *)
(* channel is bounded; a request waits while it is full.                   *)
(***************************************************************************)
PushControl(msg) ==
    /\ Len(control_chan) < Capacity
    /\ control_chan' = Append(control_chan, msg)
    /\ n_control' = n_control + 1
    /\ UNCHANGED <<views, last_upkeep, buffer_pool, data_chan, sink_buffer, rstate, clock,
                   next_id, history, n_direct>>

Sink_update_facet(s, facet) ==
    /\ PushControl(AddFacetMsg(facet, s))
    /\ UNCHANGED replies

Controller_add_facet(facet) ==
    /\ PushControl(AddFacetMsg(facet, 0))
    /\ UNCHANGED replies

Controller_remove_facet(facet) ==
    /\ PushControl(RemoveFacetMsg(facet, 0))
    /\ UNCHANGED replies

Controller_get_snapshot(c) ==
    /\ replies[c].state # "waiting"
    /\ PushControl(SnapshotMsg(c))
    /\ replies' = [replies EXCEPT ![c] = [state |-> "waiting", snapshot |-> None, seen |-> 0, queued |-> 0, op_seq |-> 0]]

(***************************************************************************)
(* Receiver::add_facet and Receiver::remove_facet called on the receiver   *)
(* itself (they take &mut self: only between two turns).                   *)
(***************************************************************************)
Receiver_add_facet(facet) ==
    /\ rpc = "poll"
    /\ n_direct' = n_direct + 1
    /\ DoAddFacet(facet)
    /\ UNCHANGED <<last_upkeep, chans, sink_buffer, rstate, replies, clock, next_id,
                   sent, applied, n_control>>

Receiver_remove_facet(facet) ==
    /\ rpc = "poll"
    /\ n_direct' = n_direct + 1
    /\ DoRemoveFacet(facet)
    /\ UNCHANGED <<last_upkeep, chans, sink_buffer, rstate, replies, clock, next_id,
                   sent, applied, n_control>>

(***************************************************************************)
(* Receiver::turn.  One turn is: upkeep, poll, then one handler per ready  *)
(* token.  rpc = "poll" is the receiver between two turns, "events" inside *)
(* the event loop of a turn, "pool_send" inside buffer_pool_tx.send.       *)
(***************************************************************************)
Ready ==
    (IF data_chan # << >> THEN {DATA} ELSE {}) \cup
    (IF control_chan # << >> THEN {CONTROL} ELSE {})

\* Upkeep and poll.  last_upkeep is not assigned by turn.
Turn_poll ==
    /\ rpc = "poll"
    /\ histogram' = IF now >= last_upkeep + UPKEEP_MS
                    THEN Histogram_upkeep(histogram, now)
                    ELSE histogram
    /\ events' = Ready
    /\ rpc' = IF Ready = {} THEN "poll" ELSE "events"
    /\ UNCHANGED <<facets, counter, gauge, last_upkeep, chans, sink_buffer, results,
                   replies, clock, next_id, history, budget>>

AfterEvent(left) == IF left = {} THEN "poll" ELSE "events"

\* The samples of one drained batch with the sink they came from and the instant
\* the receiver applied them.
Tagged(src, samples) ==
    [i \in 1..Len(samples) |-> [sink |-> src, sample |-> samples[i], at |-> now]]

\* Variant of the DATA handler that leaves out results.clear().
Turn_data_no_clear ==
    /\ rpc = "events"
    /\ DATA \in events
    /\ data_chan # << >>
    /\ LET batch   == Head(data_chan)
           st      == apply_results(CurrentViews, batch.data)
           cleared == batch
           room    == Len(buffer_pool) < Capacity
       IN  /\ counter' = st.counter
           /\ gauge' = st.gauge
           /\ histogram' = st.histogram
           /\ data_chan' = Tail(data_chan)
           /\ events' = events \ {DATA}
           /\ buffer_pool' = IF room THEN Append(buffer_pool, cleared) ELSE buffer_pool
           /\ results' = IF room THEN None ELSE Some(cleared)
           /\ rpc' = IF room THEN AfterEvent(events \ {DATA}) ELSE "pool_send"
           /\ applied' = applied \o Tagged(batch.src, st.applied)
           /\ count_stable' = {k \in count_stable : Facet("Count", k) \in facets}
           /\ gauge_stable' = {k \in gauge_stable : Facet("Gauge", k) \in facets}
           /\ expect' = [k \in Keys |->
                            IF Facet("Count", k) \in facets
                            THEN expect[k] + ExpectedCount(st.applied, k)
                            ELSE expect[k]]
    /\ UNCHANGED <<facets, last_upkeep, control_chan, sink_buffer, replies, clock, next_id,
                   sent, last_op, budget>>

\* token == DATA: recv one batch, update the views, clear, return to the pool.
\* crossbeam's bounded send waits while the pool is full.
Turn_data ==
    /\ rpc = "events"
    /\ DATA \in events
    /\ data_chan # << >>
    /\ LET batch   == Head(data_chan)
           st      == apply_results(CurrentViews, batch.data)
           cleared == [batch EXCEPT !.data = << >>]
           room    == Len(buffer_pool) < Capacity
       IN  /\ counter' = st.counter
           /\ gauge' = st.gauge
           /\ histogram' = st.histogram
           /\ data_chan' = Tail(data_chan)
           /\ events' = events \ {DATA}
           /\ buffer_pool' = IF room THEN Append(buffer_pool, cleared) ELSE buffer_pool
           /\ results' = IF room THEN None ELSE Some(cleared)
           /\ rpc' = IF room THEN AfterEvent(events \ {DATA}) ELSE "pool_send"
           /\ applied' = applied \o Tagged(batch.src, st.applied)
           /\ count_stable' = {k \in count_stable : Facet("Count", k) \in facets}
           /\ gauge_stable' = {k \in gauge_stable : Facet("Gauge", k) \in facets}
           /\ expect' = [k \in Keys |->
                            IF Facet("Count", k) \in facets
                            THEN expect[k] + ExpectedCount(st.applied, k)
                            ELSE expect[k]]
    /\ UNCHANGED <<facets, last_upkeep, control_chan, sink_buffer, replies, clock, next_id,
                   sent, last_op, budget>>

\* Variant of the pending pool return that keeps the batch in the receiver's hands.
Turn_pool_send_keeps_batch ==
    /\ rpc = "pool_send"
    /\ Len(buffer_pool) < Capacity
    /\ buffer_pool' = Append(buffer_pool, Unwrap(results))
    /\ results' = results
    /\ rpc' = AfterEvent(events)
    /\ UNCHANGED <<views, last_upkeep, data_chan, control_chan, sink_buffer, events,
                   replies, clock, next_id, history, budget>>

Turn_pool_send ==
    /\ rpc = "pool_send"
    /\ Len(buffer_pool) < Capacity
    /\ buffer_pool' = Append(buffer_pool, Unwrap(results))
    /\ results' = None
    /\ rpc' = AfterEvent(events)
    /\ UNCHANGED <<views, last_upkeep, data_chan, control_chan, sink_buffer, events,
                   replies, clock, next_id, history, budget>>

\* token == CONTROL: recv one message and dispatch it.
Turn_control ==
    /\ rpc = "events"
    /\ CONTROL \in events
    /\ control_chan # << >>
    /\ LET msg == Head(control_chan)
       IN  /\ control_chan' = Tail(control_chan)
           /\ events' = events \ {CONTROL}
           /\ rpc' = AfterEvent(events \ {CONTROL})
           /\ CASE msg.kind = "AddFacet" ->
                     DoAddFacet(msg.facet) /\ UNCHANGED replies
                [] msg.kind = "RemoveFacet" ->
                     DoRemoveFacet(msg.facet) /\ UNCHANGED replies
                [] msg.kind = "Snapshot" ->
                     /\ replies' = [replies EXCEPT ![msg.tx] =
                                       [state |-> "done",
                                        snapshot |-> Some(build_snapshot(CurrentViews)),
                                        seen |-> Len(applied),
                                        queued |-> Len(data_chan),
                                        op_seq |-> last_op.seq]]
                     /\ UNCHANGED <<views, count_stable, gauge_stable, expect, last_op>>
    /\ UNCHANGED <<last_upkeep, buffer_pool, data_chan, sink_buffer, results, clock,
                   next_id, sent, applied, budget>>

\* Instant::now() advances.
Tick ==
    /\ \E d \in TickSteps : now' = now + d
    /\ ticks' = ticks + 1
    /\ UNCHANGED <<views, last_upkeep, chans, sink_buffer, rstate, replies, next_id,
                   history, budget>>

Receiver_turn == Turn_poll \/ Turn_data \/ Turn_pool_send \/ Turn_control

(***************************************************************************)
(* Specification of the sample pipeline: one sink, samples of every kind,  *)
(* the Count facet set up on the receiver, and snapshot requests.          *)
(***************************************************************************)
PipelineSamples ==
    { Count("a", 1), Timing("a", 0, 1, 1), Value("a", 1), Count("b", 1) }

PipelineFacets == { Facet("Count", "a") }

Next ==
    \/ \E sample \in PipelineSamples : TotalSent < MaxSend /\ Sink_send(1, sample)
    \/ Sink_send_unblock(1)
    \/ \E c \in Callers : n_control < MaxControl /\ Controller_get_snapshot(c)
    \/ \E facet \in PipelineFacets : n_direct < MaxDirect /\ Receiver_add_facet(facet)
    \/ \E facet \in PipelineFacets : n_direct < MaxDirect /\ Receiver_remove_facet(facet)
    \/ Turn_poll
    \/ Turn_data
    \/ Turn_pool_send
    \/ Turn_control

Spec == Init /\ [][Next]_vars

(***************************************************************************)
(* Properties of the sample pipeline.                                      *)
(***************************************************************************)
Samples(tagged) == [i \in 1..Len(tagged) |-> tagged[i].sample]

\* The step in which the receiver answers the snapshot request of caller c.
Served(c) == replies[c].state = "waiting" /\ replies'[c].state = "done"

ServedSnapshot(c) == Unwrap(replies'[c].snapshot)

\* Count(k) was registered whenever a sample was applied and was never removed.
CountRegisteredThroughout(k) == k \in count_stable /\ Facet("Count", k) \in facets

\* C1: for a key K whose Count(K) facet was registered before any sample was
\* applied and stayed registered, a served snapshot reports count(K) equal to the
\* sum of the deltas of the applied Count(K, d) samples plus the number of applied
\* Timing(K, ...) samples; Value samples and samples of other keys add nothing.
C1_CountIsDeltasPlusTimings ==
    [][\A c \in Callers, k \in Keys :
          (Served(c) /\ CountRegisteredThroughout(k))
             => count(ServedSnapshot(c), k) = Some(ExpectedCount(Samples(applied), k))]_vars

HasApplied(sample) == \E i \in 1..Len(applied) : i <= replies[1].seen /\ applied[i].sample = sample

C1_Witness ==
    /\ replies[1].state = "done"
    /\ CountRegisteredThroughout("a")
    /\ replies[1].seen = 4
    /\ HasApplied(Count("a", 1)) /\ HasApplied(Timing("a", 0, 1, 1))
    /\ HasApplied(Value("a", 1)) /\ HasApplied(Count("b", 1))
    /\ count(Unwrap(replies[1].snapshot), "a") = Some(2)

\* C2 (as claimed): with one sink and Count(k) registered, once the sink has sent
\* n Count(k, 1) samples and no batch remains in the data channel, a served
\* snapshot reports count(k) = n, for every n.
C2_EverySentSampleCounted ==
    [][\A c \in Callers :
          (/\ Served(c)
           /\ CountRegisteredThroughout("a")
           /\ sent[2] = << >>
           /\ \A i \in 1..Len(sent[1]) : sent[1][i] = Count("a", 1)
           /\ ~SinkBlocked(1)
           /\ data_chan = << >>)
             => count(ServedSnapshot(c), "a") = Some(Len(sent[1]))]_vars

\* C3 (as claimed): the receiver is never held up inside the return of a drained
\* batch to the buffer pool.
C3_PoolReturnNeverBlocks == rpc # "pool_send"

RECURSIVE Flatten(_)
Flatten(batches) ==
    IF batches = << >> THEN << >> ELSE Head(batches).data \o Flatten(Tail(batches))

Held(s) == IF sink_buffer[s] = None THEN << >> ELSE Unwrap(sink_buffer[s]).data

\* C5: a served snapshot reflects exactly the samples of the batches drained
\* before the request was served: everything submitted so far, less the samples
\* still held by a sink and less the samples of the batches still queued in the
\* data channel.
C5_SnapshotReflectsDrainedBatchesOnly ==
    [][\A c \in Callers, k \in Keys :
          (Served(c) /\ CountRegisteredThroughout(k))
             => count(ServedSnapshot(c), k) =
                   Some(ExpectedCount(sent[1] \o sent[2], k)
                          - ExpectedCount(Flatten(data_chan), k)
                          - ExpectedCount(Held(1) \o Held(2), k))]_vars

C5_Witness ==
    /\ replies[1].state = "done"
    /\ CountRegisteredThroughout("a")
    /\ replies[1].queued = 1
    /\ replies[1].seen = 2
    /\ Len(applied) = 2
    /\ data_chan # << >>
    /\ ExpectedCount(Head(data_chan).data, "a") = 2
    /\ count(Unwrap(replies[1].snapshot), "a") = Some(1)

(***************************************************************************)
(* Specification of the ordering of samples: two sinks writing gauge       *)
(* values, the Gauge facet set up on the receiver, and snapshot requests.  *)
(***************************************************************************)
OrderSamples == { Value("a", 1), Value("a", 2) }

OrderFacets == { Facet("Gauge", "a") }

NextOrder ==
    \/ \E s \in Sinks, sample \in OrderSamples : TotalSent < MaxSend /\ Sink_send(s, sample)
    \/ \E s \in Sinks : Sink_send_unblock(s)
    \/ \E c \in Callers : n_control < MaxControl /\ Controller_get_snapshot(c)
    \/ \E facet \in OrderFacets : n_direct < MaxDirect /\ Receiver_add_facet(facet)
    \/ \E facet \in OrderFacets : n_direct < MaxDirect /\ Receiver_remove_facet(facet)
    \/ Turn_poll
    \/ Turn_data
    \/ Turn_pool_send
    \/ Turn_control

SpecOrder == Init /\ [][NextOrder]_vars

\* Gauge(k) was registered whenever a sample was applied and was never removed.
GaugeRegisteredThroughout(k) == k \in gauge_stable /\ Facet("Gauge", k) \in facets

\* The v of the last Value(k, v) of a sequence of samples; None when there is none.
RECURSIVE LastValue(_, _)
LastValue(samples, k) ==
    IF samples = << >> THEN None
    ELSE LET last == samples[Len(samples)]
         IN  IF last.kind = "Value" /\ last.key = k THEN Some(last.n)
             ELSE LastValue(SubSeq(samples, 1, Len(samples) - 1), k)

\* The samples of sink s that were drained, in the order s submitted them.
DrainedOf(s) == SubSeq(sent[s], 1, Len(applied))

OnlySender(s) == \A o \in Sinks \ {s} : sent[o] = << >>

\* C6: with Gauge(K) registered, a single sink in use and at least one Value(K, v)
\* drained, a served snapshot reports value(K) = the v of the last Value(K, _) in
\* the sink's submission order among the drained samples.
C6_GaugeIsLastWrite ==
    [][\A c \in Callers, s \in Sinks, k \in Keys :
          (/\ Served(c)
           /\ OnlySender(s)
           /\ GaugeRegisteredThroughout(k)
           /\ LastValue(DrainedOf(s), k) # None)
             => value(ServedSnapshot(c), k) = LastValue(DrainedOf(s), k)]_vars

C6_Witness ==
    /\ replies[1].state = "done"
    /\ OnlySender(1)
    /\ GaugeRegisteredThroughout("a")
    /\ replies[1].seen = 2
    /\ Len(applied) = 2
    /\ Len(sent[1]) >= 3
    /\ SubSeq(sent[1], 1, 3) = << Value("a", 2), Value("a", 1), Value("a", 2) >>
    /\ value(Unwrap(replies[1].snapshot), "a") = Some(1)

\* The samples of sink s among the applied ones, in the order they were applied.
AppliedOf(s) == Samples(SelectSeq(applied, LAMBDA e : e.sink = s))

IsPrefix(p, q) == Len(p) <= Len(q) /\ SubSeq(q, 1, Len(p)) = p

Generated == IF Len(sent[1]) % 2 = 0 THEN Timing("a", 0, 1, 1) ELSE Value("a", 2)

FacetInputs == { Facet(kind, "a") : kind \in FacetKinds }

\* The facets sent over the control channel.
RequestFacets == { Facet("Count", "a") }

NextFacets ==
    \/ TotalSent < MaxSend /\ Sink_send(1, Generated)
    \/ Sink_send_unblock(1)
    \/ \E facet \in RequestFacets : n_control < MaxControl /\ Sink_update_facet(1, facet)
    \/ \E facet \in RequestFacets : n_control < MaxControl /\ Controller_add_facet(facet)
    \/ \E facet \in RequestFacets : n_control < MaxControl /\ Controller_remove_facet(facet)
    \/ \E c \in Callers : n_control < MaxControl /\ Controller_get_snapshot(c)
    \/ \E facet \in FacetInputs : n_direct < MaxFacetCalls /\ Receiver_add_facet(facet)
    \/ \E facet \in FacetInputs : n_direct < MaxFacetCalls /\ Receiver_remove_facet(facet)
    \/ Turn_poll
    \/ Turn_data
    \/ Turn_pool_send
    \/ Turn_control

SpecFacets == Init /\ [][NextFacets]_vars

\* Facet f has an entry in the snapshot.
Emitted(snapshot, f) ==
    CASE f.kind = "Count" -> count(snapshot, f.key) # None
      [] f.kind = "Gauge" -> value(snapshot, f.key) # None
      [] f.kind = "TimingPercentile" ->
           \E i \in 1..Len(default_percentiles) :
              timing_percentile(snapshot, f.key, default_percentiles[i]) # None
      [] f.kind = "ValuePercentile" ->
           \E i \in 1..Len(default_percentiles) :
              value_percentile(snapshot, f.key, default_percentiles[i]) # None
      [] OTHER -> FALSE

\* The last facet operation was a remove_facet(f) that directly followed add_facet(f).
Undone == last_op.op = "remove" /\ last_op.follows

\* C8 (as claimed): for any receiver state and any facet f, add_facet(f) followed
\* by remove_facet(f) returns the facet set to what it was before the add_facet,
\* and f is not emitted in the snapshots served afterwards.
C8_AddRemoveRestoresFacets ==
    [][/\ Undone' => facets' = last_op'.prior
       /\ \A c \in Callers :
             (Served(c) /\ Undone) => ~Emitted(ServedSnapshot(c), last_op.facet)]_vars

\* C8 (amended): add_facet(f) followed by remove_facet(f) leaves the facet set
\* equal to the set before the add_facet without f (the prior set itself when f
\* was not registered before the add_facet), and f is not emitted in the
\* snapshots served afterwards.
C8_AddRemoveLeavesPriorWithoutF ==
    [][/\ Undone' => facets' = last_op'.prior \ {last_op'.facet}
       /\ \A c \in Callers :
             (Served(c) /\ Undone) => ~Emitted(ServedSnapshot(c), last_op.facet)]_vars

C8_Witness ==
    /\ replies[1].state = "done"
    /\ Undone
    /\ replies[1].op_seq = last_op.seq
    /\ last_op.facet = Facet("Gauge", "a")
    /\ last_op.prior = {Facet("Count", "a")}
    /\ facets = last_op.prior
    /\ Emitted(Unwrap(replies[1].snapshot), Facet("Count", "a"))
    /\ ~Emitted(Unwrap(replies[1].snapshot), Facet("Gauge", "a"))

\* The step is an add_facet(f) that directly follows an add_facet(f).
RepeatedAdd ==
    /\ last_op'.seq = last_op.seq + 1
    /\ last_op'.op = "add"
    /\ last_op'.follows

\* C9: add_facet is idempotent: a second add_facet(f) changes neither the facet
\* set nor the values accumulated for the key of f (counter total, gauge value,
\* histogram contents).
C9_AddFacetIdempotent ==
    [][RepeatedAdd => /\ facets' = facets
                      /\ counter' = counter
                      /\ gauge' = gauge
                      /\ histogram' = histogram]_vars

C9_Witness ==
    /\ last_op.op = "add"
    /\ last_op.follows
    /\ last_op.facet = Facet("Gauge", "a")
    /\ last_op.seen = 2
    /\ Len(applied) = 2
    /\ Facet("Count", "a") \in facets
    /\ Counter_value(counter, "a") = 1
    /\ Gauge_value(gauge, "a") = 2

\* C10 (as claimed): remove_facet(f) does not erase what was recorded for the key
\* of f: when f is registered again, a served snapshot reports the value
\* accumulated while f was registered (stated for Count facets).
C10_RemoveKeepsRecordedState ==
    [][\A c \in Callers, k \in Keys :
          (Served(c) /\ Facet("Count", k) \in facets)
             => count(ServedSnapshot(c), k) = Some(expect[k])]_vars

(***************************************************************************)
(* Specification of a receiver that keeps running turn(): one sink sending *)
(* count samples, snapshot requests, and weak fairness of the receiver's   *)
(* steps (run() loops on turn()).  Nothing is assumed of the producers.    *)
(***************************************************************************)
NextLive ==
    \/ TotalSent < MaxSend /\ Sink_send(1, Count("a", 1))
    \/ Sink_send_unblock(1)
    \/ \E c \in Callers : n_control < MaxControl /\ Controller_get_snapshot(c)
    \/ n_direct < MaxDirect /\ Receiver_add_facet(Facet("Count", "a"))
    \/ Turn_poll
    \/ Turn_data
    \/ Turn_pool_send
    \/ Turn_control

SpecLive == Init /\ [][NextLive]_vars /\ WF_vars(Receiver_turn)

\* C4 (as claimed): while the receiver keeps running turn(), every snapshot
\* request put on the control channel is eventually answered, whatever the
\* producers do.
C4_SnapshotEventuallyAnswered ==
    \A c \in Callers : (replies[c].state = "waiting") ~> (replies[c].state = "done")

(***************************************************************************)
(* Specification of the histogram window: the clock advances, one sink     *)
(* sends gauge values numbered in the order they are sent, a percentile    *)
(* facet is set up on the receiver, and snapshot requests.                 *)
(***************************************************************************)
\* The n-th sample of the sink carries the value n.
Numbered == Value("a", Len(sent[1]) + 1)

WindowFacets == { Facet("TimingPercentile", "a"), Facet("ValuePercentile", "a") }

NextWindow ==
    \/ TotalSent < MaxSend /\ Sink_send(1, Numbered)
    \/ Sink_send_unblock(1)
    \/ \E c \in Callers : n_control < MaxControl /\ Controller_get_snapshot(c)
    \/ \E facet \in WindowFacets : n_direct < MaxDirect /\ Receiver_add_facet(facet)
    \/ ticks < MaxTicks /\ Tick
    \/ Turn_poll
    \/ Turn_data
    \/ Turn_pool_send
    \/ Turn_control

SpecWindow == Init /\ [][NextWindow]_vars

(***************************************************************************)
(* Properties of the histogram window.                                     *)
(***************************************************************************)
PercentileRegistered(k) ==
    Facet("TimingPercentile", k) \in facets \/ Facet("ValuePercentile", k) \in facets

\* The histogram of k is registered and its window holds no sample.
NoDataInWindow(k) == k \in DOMAIN histogram /\ Window_merged(histogram[k]) = EmptyBag

\* C11 (as claimed): when TimingPercentile(k) or ValuePercentile(k) is registered
\* and the histogram of k holds no sample in its window (none was applied, or all
\* have expired), a served snapshot has no percentile entry for k:
\* timing_percentile(k, p) and value_percentile(k, p) are None for every p.
C11_NoPercentilesWhenWindowEmpty ==
    [][\A c \in Callers, k \in Keys :
          (Served(c) /\ PercentileRegistered(k) /\ NoDataInWindow(k))
             => \A i \in 1..Len(default_percentiles) :
                   /\ timing_percentile(ServedSnapshot(c), k, default_percentiles[i]) = None
                   /\ value_percentile(ServedSnapshot(c), k, default_percentiles[i]) = None]_vars

\* What the histogram records for a sample.
Recorded(sample) == IF sample.kind = "Timing" THEN TimingDelta(sample) ELSE sample.n

\* The bag of the values recorded for key k by the entries of the log applied
\* after the instant `since`.
RECURSIVE RecordedSince(_, _, _)
RecordedSince(log, k, since) ==
    IF log = << >> THEN EmptyBag
    ELSE LET e    == Head(log)
             rest == RecordedSince(Tail(log), k, since)
         IN  IF e.sample.key = k /\ e.sample.kind # "Count" /\ e.at > since
             THEN SetToBag({Recorded(e.sample)}) (+) rest
             ELSE rest

UpkeepRuns == Turn_poll /\ now >= last_upkeep + UPKEEP_MS

\* C17 (as claimed): a turn() that runs histogram upkeep at instant now sets
\* last_upkeep to now (so that upkeep runs at most once per 250 ms).
C17_UpkeepUpdatesLastUpkeep == [][UpkeepRuns => last_upkeep' = now]_vars

(***************************************************************************)
(* Properties of the entries of a served snapshot (under SpecFacets).      *)
(***************************************************************************)
\* No sample of key k has been applied to the views.
NoSampleApplied(k) == \A i \in 1..Len(applied) : applied[i].sample.key # k

\* C12: a snapshot served while Count(k) and Gauge(k) are registered and before
\* any sample of key k has been applied has count(k) = 0 and value(k) = 0: the
\* two entries are present with the value 0.
C12_ZeroBeforeData ==
    [][\A c \in Callers, k \in Keys :
          (Served(c) /\ NoSampleApplied(k))
             => /\ Facet("Count", k) \in facets => count(ServedSnapshot(c), k) = Some(0)
                /\ Facet("Gauge", k) \in facets => value(ServedSnapshot(c), k) = Some(0)]_vars

\* Both facets registered, a batch of samples of the key sent but not drained.
C12_Witness ==
    /\ replies[1].state = "done"
    /\ replies[1].seen = 0 /\ applied = << >>
    /\ replies[1].queued = 1
    /\ replies[1].op_seq = last_op.seq
    /\ {Facet("Count", "a"), Facet("Gauge", "a")} \subseteq facets
    /\ count(Unwrap(replies[1].snapshot), "a") = Some(0)
    /\ value(Unwrap(replies[1].snapshot), "a") = Some(0)

\* C13: a served snapshot has a count entry for key k if and only if Count(k) is
\* in the facet set when the request is served, and a gauge value entry for k if
\* and only if Gauge(k) is; for a facet that is not registered the query is None
\* even when samples of k were applied.
C13_EntryIffFacetRegistered ==
    [][\A c \in Callers, k \in Keys :
          Served(c)
             => /\ count(ServedSnapshot(c), k) # None <=> Facet("Count", k) \in facets
                /\ value(ServedSnapshot(c), k) # None <=> Facet("Gauge", k) \in facets]_vars

\* Count(a) registered, Gauge(a) removed again, samples of a applied: the count is
\* there, the gauge value is not.
C13_Witness ==
    /\ replies[1].state = "done"
    /\ replies[1].seen = 2 /\ Len(applied) = 2
    /\ replies[1].op_seq = last_op.seq
    /\ last_op.op = "remove" /\ last_op.facet = Facet("Gauge", "a")
    /\ Facet("Count", "a") \in facets
    /\ count(Unwrap(replies[1].snapshot), "a") = Some(1)
    /\ value(Unwrap(replies[1].snapshot), "a") = None

(***************************************************************************)
(* Specification of the Snapshot type on its own: the owner of a snapshot  *)
(* (a caller that holds one, starting from Snapshot::new()) calls its      *)
(* setters with inputs drawn from small sets.                              *)
(***************************************************************************)
SnapshotValues == {1, 2}

PercentileKeys == {"a"}

PercentileLists ==
    { << Percentile("min", 0), Percentile("p50", 500) >>,
      << Percentile("p50", 500), Percentile("max", 1000) >> }

Histograms == { SetToBag({5, 7, 10, 12}), SetToBag({3}) }

\* The percentiles a query is made with: labels stored or not, any q.
QueryLabels == {"min", "p50", "max", "fake"}
QueryQs     == {0, 630}

\* A caller that holds a snapshot it built with the call `call` last.
Holding(snapshot, call) ==
    [state |-> "done", snapshot |-> Some(snapshot), seen |-> 0, queued |-> 0,
     op_seq |-> 0, call |-> call]

InitSnapshot ==
    /\ facets = {}
    /\ counter = Counter_new
    /\ gauge = Gauge_new
    /\ histogram = Histogram_new
    /\ last_upkeep = 0
    /\ buffer_pool = [i \in 1..Capacity |-> Batch(i, 0, << >>)]
    /\ data_chan = << >>
    /\ control_chan = << >>
    /\ sink_buffer = [s \in Sinks |-> None]
    /\ rpc = "poll"
    /\ events = {}
    /\ results = None
    /\ replies = [c \in Callers |-> Holding(Snapshot_new, [op |-> "new"])]
    /\ now = 0
    /\ ticks = 0
    /\ next_id = Capacity + 1
    /\ sent = [s \in Sinks |-> << >>]
    /\ applied = << >>
    /\ count_stable = Keys
    /\ gauge_stable = Keys
    /\ expect = [k \in Keys |-> 0]
    /\ last_op = NoOp
    /\ n_control = 0
    /\ n_direct = 0

\* The snapshot caller c holds.
Owned(c) == Unwrap(replies[c].snapshot)

\* Caller c replaces the snapshot it holds by the result of a setter; the call is
\* kept with the snapshot.
SnapshotCall(c, snapshot, call) ==
    /\ replies[c].state = "done"
    /\ replies' = [replies EXCEPT ![c] = Holding(snapshot, call)]
    /\ UNCHANGED <<views, last_upkeep, chans, sink_buffer, rstate, clock, next_id,
                   history, budget>>

Snapshot_set_count(c, key, v) ==
    SnapshotCall(c, set_count(Owned(c), key, v),
                 [op |-> "set_count", key |-> key, v |-> v])

Snapshot_set_value(c, key, v) ==
    SnapshotCall(c, set_value(Owned(c), key, v),
                 [op |-> "set_value", key |-> key, v |-> v])

Snapshot_set_timing_percentiles(c, key, h, percentiles) ==
    SnapshotCall(c, set_timing_percentiles(Owned(c), key, h, percentiles),
                 [op |-> "set_timing_percentiles", key |-> key, h |-> h,
                  percentiles |-> percentiles])

Snapshot_set_value_percentiles(c, key, h, percentiles) ==
    SnapshotCall(c, set_value_percentiles(Owned(c), key, h, percentiles),
                 [op |-> "set_value_percentiles", key |-> key, h |-> h,
                  percentiles |-> percentiles])

NextSnapshot ==
    \/ \E c \in Callers, key \in Keys, v \in SnapshotValues : Snapshot_set_count(c, key, v)
    \/ \E c \in Callers, key \in Keys, v \in SnapshotValues : Snapshot_set_value(c, key, v)
    \/ \E c \in Callers, key \in PercentileKeys, h \in Histograms, ps \in PercentileLists :
          Snapshot_set_timing_percentiles(c, key, h, ps)
    \/ \E c \in Callers, key \in PercentileKeys, h \in Histograms, ps \in PercentileLists :
          Snapshot_set_value_percentiles(c, key, h, ps)

SpecSnapshot == InitSnapshot /\ [][NextSnapshot]_vars

(***************************************************************************)
(* Properties of the Snapshot type.                                        *)
(***************************************************************************)
\* The snapshot caller c holds after the step, and the call that made it.
OwnedAfter(c) == Unwrap(replies'[c].snapshot)
Called(c)     == replies'[c].call

\* C15: set_count(k, c) makes count(k) return c and set_value(k, v) makes
\* value(k) return v, whatever was stored for k before (the last set wins); a
\* set_count leaves every gauge value as it was and a set_value leaves every
\* count as it was, the same key included; the entries of other keys stay.
C15_SetGetRoundTrip ==
    [][\A c \in Callers :
          LET call == Called(c)
              k    == call.key
          IN  /\ call.op = "set_count" =>
                    /\ count(OwnedAfter(c), k) = Some(call.v)
                    /\ \A o \in Keys \ {k} : count(OwnedAfter(c), o) = count(Owned(c), o)
                    /\ \A o \in Keys : value(OwnedAfter(c), o) = value(Owned(c), o)
              /\ call.op = "set_value" =>
                    /\ value(OwnedAfter(c), k) = Some(call.v)
                    /\ \A o \in Keys \ {k} : value(OwnedAfter(c), o) = value(Owned(c), o)
                    /\ \A o \in Keys : count(OwnedAfter(c), o) = count(Owned(c), o)]_vars

\* Count and gauge value of the same key with different values, side by side.
C15_Witness ==
    /\ replies[1].call = [op |-> "set_count", key |-> "a", v |-> 2]
    /\ count(Owned(1), "a") = Some(2)
    /\ value(Owned(1), "a") = Some(1)
    /\ count(Owned(1), "b") = Some(1)
    /\ value(Owned(1), "b") = None

Labels(percentiles) == {percentiles[i].label : i \in 1..Len(percentiles)}

\* The q of the percentile of the list that carries the label.
QOf(percentiles, label) ==
    LET i == CHOOSE j \in 1..Len(percentiles) : percentiles[j].label = label
    IN  percentiles[i].q

\* C16: after set_timing_percentiles(k, h, P), timing_percentile(k, Percentile(l, q))
\* is the value of h at the percentile of P labelled l when P has such a
\* percentile, whatever q the query carries, and is what it was before (None on a
\* snapshot that had no such entry) when P has none; the value percentiles of k
\* are left as they were.  The same holds with timing and value exchanged.
C16_PercentileLookupByLabel ==
    [][\A c \in Callers, l \in QueryLabels, q \in QueryQs :
          LET call == Called(c)
              k    == call.key
              p    == Percentile(l, q)
          IN  /\ call.op = "set_timing_percentiles" =>
                    /\ l \in Labels(call.percentiles) =>
                          timing_percentile(OwnedAfter(c), k, p)
                             = Some(value_at_percentile(call.h, QOf(call.percentiles, l)))
                    /\ l \notin Labels(call.percentiles) =>
                          timing_percentile(OwnedAfter(c), k, p)
                             = timing_percentile(Owned(c), k, p)
                    /\ timing_percentile(Owned(c), k, p) = None =>
                          (timing_percentile(OwnedAfter(c), k, p) # None
                              <=> l \in Labels(call.percentiles))
                    /\ value_percentile(OwnedAfter(c), k, p) = value_percentile(Owned(c), k, p)
              /\ call.op = "set_value_percentiles" =>
                    /\ l \in Labels(call.percentiles) =>
                          value_percentile(OwnedAfter(c), k, p)
                             = Some(value_at_percentile(call.h, QOf(call.percentiles, l)))
                    /\ l \notin Labels(call.percentiles) =>
                          value_percentile(OwnedAfter(c), k, p)
                             = value_percentile(Owned(c), k, p)
                    /\ value_percentile(Owned(c), k, p) = None =>
                          (value_percentile(OwnedAfter(c), k, p) # None
                              <=> l \in Labels(call.percentiles))
                    /\ timing_percentile(OwnedAfter(c), k, p) = timing_percentile(Owned(c), k, p)]_vars

\* Timing percentiles min, p50 of one histogram and value percentiles p50, max of
\* another under the same key: the query finds them by label, with a q that is
\* not the stored one, and finds nothing under a label that was not stored.
C16_Witness ==
    /\ timing_percentile(Owned(1), "a", Percentile("min", 630)) = Some(5)
    /\ timing_percentile(Owned(1), "a", Percentile("p50", 0)) = Some(7)
    /\ timing_percentile(Owned(1), "a", Percentile("max", 630)) = None
    /\ timing_percentile(Owned(1), "a", Percentile("fake", 630)) = None
    /\ value_percentile(Owned(1), "a", Percentile("p50", 630)) = Some(3)
    /\ value_percentile(Owned(1), "a", Percentile("max", 0)) = Some(3)
    /\ value_percentile(Owned(1), "a", Percentile("min", 0)) = None

(***************************************************************************)
(* Properties of the batch buffers (under Spec).                           *)
(***************************************************************************)
Ids(batches) == [i \in 1..Len(batches) |-> batches[i].id]

OptionIds(o) == IF o = None THEN << >> ELSE << Unwrap(o).id >>

\* The buffers of the free pool, of the data channel, of the receiver (a drained
\* batch it has not returned yet) and of the sinks, one entry per place.
AllIds ==
    Ids(buffer_pool) \o Ids(data_chan) \o OptionIds(results)
       \o OptionIds(sink_buffer[1]) \o OptionIds(sink_buffer[2])

\* Every buffer allocated so far is in exactly one place.
ExactlyOneOwner ==
    /\ Len(AllIds) = next_id - 1
    /\ \A id \in 1..(next_id - 1) : \E i \in 1..Len(AllIds) : AllIds[i] = id
    /\ \A i, j \in 1..Len(AllIds) : i # j => AllIds[i] # AllIds[j]

Place(id) ==
    IF \E i \in 1..Len(buffer_pool) : buffer_pool[i].id = id THEN "pool"
    ELSE IF \E s \in Sinks : sink_buffer[s] # None /\ Unwrap(sink_buffer[s]).id = id THEN "sink"
    ELSE IF \E i \in 1..Len(data_chan) : data_chan[i].id = id THEN "data"
    ELSE IF results # None /\ Unwrap(results).id = id THEN "receiver"
    ELSE "unallocated"

\* data -> pool is the DATA handler receiving a batch and returning it at once.
OwnerMoves ==
    { <<"unallocated", "sink">>, <<"pool", "sink">>, <<"sink", "data">>,
      <<"data", "receiver">>, <<"receiver", "pool">>, <<"data", "pool">> }

\* C18: at every instant every batch buffer is in exactly one of the free pool,
\* one sink, the data channel and the receiver, and a buffer only moves
\* pool (or fresh allocation) -> sink -> data channel -> receiver -> pool.
C18_UniqueBatchOwnership ==
    /\ []ExactlyOneOwner
    /\ [][\A id \in 1..(next_id' - 1) :
             Place(id)' # Place(id) => <<Place(id), Place(id)'>> \in OwnerMoves]_vars

\* Two buffers, one freshly allocated; the first went round the cycle and is in
\* the sink's hands again, the second is back in the pool.
C18_Witness ==
    /\ next_id = 3
    /\ Len(applied) = 4
    /\ Ids(buffer_pool) = << 2 >>
    /\ OptionIds(sink_buffer[1]) = << 1 >>
    /\ data_chan = << >> /\ results = None

\* The samples of sink s that sit in the data channel.
QueuedOf(s) == Flatten(SelectSeq(data_chan, LAMBDA b : b.src = s))

\* C19: every batch of the free pool is empty (the receiver clears a batch before
\* it returns it), so a recycled batch carries no sample of an earlier use and no
\* sample is applied twice: what a sink submitted is, in order, what was applied
\* of it, then what is queued of it, then what it still holds.
C19_PoolBatchesEmpty ==
    /\ \A i \in 1..Len(buffer_pool) : buffer_pool[i].data = << >>
    /\ results # None => Unwrap(results).data = << >>
    /\ \A s \in Sinks : sent[s] = (AppliedOf(s) \o QueuedOf(s)) \o Held(s)

\* A recycled batch in the pool, another one refilled by the sink with its fifth
\* sample only.
C19_Witness ==
    /\ Len(buffer_pool) = 1 /\ buffer_pool[1].src = 1
    /\ Len(sent[1]) = 5
    /\ Len(applied) = 4
    /\ sink_buffer[1] # None
    /\ Unwrap(sink_buffer[1]).id = 1
    /\ Unwrap(sink_buffer[1]).data = << sent[1][5] >>

(***************************************************************************)
(* Specification of the sample kinds: the facets of a key are set up on    *)
(* the receiver before the first sample is sent, then one sink sends       *)
(* samples of the three kinds in any order.                                *)
(***************************************************************************)
KindSamples == { Count("a", 1), Timing("a", 0, 3, 1), Value("a", 2) }

KindFacets == { Facet("Count", "a"), Facet("Gauge", "a"), Facet("TimingPercentile", "a") }

NextKinds ==
    \/ \E sample \in KindSamples : TotalSent < MaxSend /\ Sink_send(1, sample)
    \/ Sink_send_unblock(1)
    \/ \E facet \in KindFacets :
          n_direct < MaxFacetCalls /\ TotalSent = 0 /\ Receiver_add_facet(facet)
    \/ Turn_poll
    \/ Turn_data
    \/ Turn_pool_send

SpecKinds == Init /\ [][NextKinds]_vars

\* The kinds of the samples the step applies.
AppliedKinds ==
    { applied'[i].sample.kind : i \in (Len(applied) + 1)..Len(applied') }

\* C20: each sample kind changes only its own views: a step that applies Value
\* samples only leaves every counter as it was, a step that applies no Value
\* sample (Count and Timing samples only) leaves every gauge as it was, and a
\* step that applies Count samples only leaves every histogram as it was.
C20_SampleKindsFrame ==
    [][Len(applied') > Len(applied) =>
          /\ AppliedKinds \subseteq {"Value"} => counter' = counter
          /\ "Value" \notin AppliedKinds => gauge' = gauge
          /\ AppliedKinds \subseteq {"Count"} => histogram' = histogram]_vars

\* The three views of the key registered; a batch of a Count and a Timing sample,
\* then a batch of two Value samples: the counter has the first batch only, the
\* gauge the second only, the histogram the timing and the values.
C20_Witness ==
    /\ facets = KindFacets
    /\ Samples(applied) = << Count("a", 1), Timing("a", 0, 3, 1), Value("a", 2), Value("a", 2) >>
    /\ Counter_value(counter, "a") = 2
    /\ Gauge_value(gauge, "a") = 2
    /\ Window_merged(histogram["a"]) = SetToBag({3}) (+) SetToBag({2}) (+) SetToBag({2})

(***************************************************************************)
(* Properties of the views that back the facets (under SpecFacets).        *)
(***************************************************************************)
\* The key of facet f is registered in the view the snapshot reads f from.
Backed(f) ==
    CASE f.kind = "Count"            -> f.key \in DOMAIN counter
      [] f.kind = "Gauge"            -> f.key \in DOMAIN gauge
      [] f.kind = "TimingPercentile" -> f.key \in DOMAIN histogram
      [] f.kind = "ValuePercentile"  -> f.key \in DOMAIN histogram

\* C21 (as claimed): after any sequence of add_facet and remove_facet, every facet
\* of the facet set has its key registered in the view that backs it, also when
\* both percentile facets of a key were registered and one of them was removed.
C21_FacetsBackedByViews == \A f \in facets : Backed(f)

\* The bag of what the histogram records for the samples of key k and of the
\* given kind among the applied ones.
RECURSIVE RecordedOfKind(_, _, _)
RecordedOfKind(log, k, kind) ==
    IF log = << >> THEN EmptyBag
    ELSE LET e    == Head(log)
             rest == RecordedOfKind(Tail(log), k, kind)
         IN  IF e.sample.key = k /\ e.sample.kind = kind
             THEN SetToBag({Recorded(e.sample)}) (+) rest
             ELSE rest

\* No facet was added or removed since the first sample was applied, and the
\* histogram of k is registered: it has seen every applied sample.
HistogramSawEverything(k) == last_op.seen = 0 /\ k \in DOMAIN histogram

\* C22 (as claimed): the timing percentile entries of a served snapshot for key k
\* are the percentiles of the Timing samples of k only, and the value percentile
\* entries those of the Value samples of k only, whichever of the two percentile
\* facets are registered and whichever kinds of samples were sent for k.
C22_PercentilesFromOwnSamples ==
    [][\A c \in Callers, k \in Keys, i \in 1..Len(default_percentiles) :
          (Served(c) /\ HistogramSawEverything(k))
             => LET p == default_percentiles[i]
                IN  /\ Facet("TimingPercentile", k) \in facets =>
                          timing_percentile(ServedSnapshot(c), k, p)
                             = Some(value_at_percentile(
                                      RecordedOfKind(applied, k, "Timing"), p.q))
                    /\ Facet("ValuePercentile", k) \in facets =>
                          value_percentile(ServedSnapshot(c), k, p)
                             = Some(value_at_percentile(
                                      RecordedOfKind(applied, k, "Value"), p.q))]_vars

(***************************************************************************)
(* Specification of one producer thread that registers a facet through its *)
(* sink and then sends samples through the same sink: update_facet comes   *)
(* before the first send, in the thread's program order.                   *)
(***************************************************************************)
ControlSamples == { Count("a", 1), Count("a", 2) }

NextControl ==
    \/ n_control = 0 /\ TotalSent = 0 /\ Sink_update_facet(1, Facet("Count", "a"))
    \/ \E sample \in ControlSamples :
          n_control > 0 /\ TotalSent < MaxSend /\ Sink_send(1, sample)
    \/ Sink_send_unblock(1)
    \/ Turn_poll
    \/ Turn_data
    \/ Turn_pool_send
    \/ Turn_control

SpecControl == Init /\ [][NextControl]_vars

\* C23 (as claimed): when a thread calls update_facet(Count(k)) on a sink and then
\* sends Count(k, d) samples through the same sink, every sample the receiver
\* has drained is in the counter: no batch is applied ahead of the control
\* message the sink submitted before it.
C23_ControlAheadOfData ==
    \A s \in Sinks :
       AppliedOf(s) # << >> =>
          Counter_value(counter, "a") = ExpectedCount(AppliedOf(s), "a")

====
